---- MODULE Spec2Model ----
(***************************************************************************)
(* A model of package lru of hegh/basics: the cost-bounded least-recently- *)
(* used cache with read-through retrieval (Cache, New, Get, Put, Clear,    *)
(* EvictOldest, Evict).                                                    *)
(*                                                                         *)
(* The recency list (container/list) is a sequence of cells, front first.  *)
(* A *list.Element is named by the key its cell carries, which never       *)
(* changes after the cell is created; the index `entries` is a function    *)
(* from the keys present in the Go map to such handles.  Cost is a signed  *)
(* integer with Go's wrap-around arithmetic, of range -MaxInt64-1 ..       *)
(* MaxInt64.                                                               *)
(*                                                                         *)
(* A call is one step.  It leaves in `last` what the caller saw of it: the *)
(* arguments, the results, the callback invocations, and the cache as it   *)
(* was when the call began.  The caller's step Return drops that record    *)
(* before the next call.                                                   *)
(*                                                                         *)
(* Package semaphore (Basic, Strict) follows: goroutines step through      *)
(* Acquire, Release and Close, one step at s.lock.Lock() and one for what  *)
(* they do while they hold the lock, up to the Unlock or the cond.Wait.    *)
(* Package refcount (RefCount, decrementer) is modelled the same way, with *)
(* rc.lock and one lock per decrementer.                                   *)
(***************************************************************************)
EXTENDS Integers, Sequences, FiniteSets, TLC

\* Bounds of the model.
NumKeys == 3
NumValues == 2
MaxInt64 == 3
MaxMaxCost == 2
NumGoroutines == 3
MaxSize == 1
MaxSlots == 2
NumCallers == 3
NumClosers == 2

\* The nil interface value (a missing previous value, a nil return).
Nil == 0

Keys == 1..NumKeys
Values == 1..NumValues

\* Signed arithmetic as Go performs it on Cost (int64), with MaxInt64 standing
\* for math.MaxInt64.
Wrap(x) == ((x + MaxInt64 + 1) % (2 * (MaxInt64 + 1))) - (MaxInt64 + 1)

\* The costs a caller or a retriever may hand to the cache.
Costs == -1..MaxInt64

\* The errors a retriever may return, besides nil.
RetrieveErrors == {"retrieveError"}

\* The values New may be given as maxCost and MaxCost may be assigned.
MaxCosts == 0..MaxMaxCost

VARIABLES
    list,        \* c.list: sequence of cells [key, value, cost], front first
    entries,     \* c.entries: function from resident keys to element handles
    cost,        \* c.cost
    MaxCost,     \* c.MaxCost
    OnRetrieve,  \* c.OnRetrieve # nil
    OnEvict,     \* c.OnEvict # nil
    last,        \* what the call that has just returned did, or Idle
    recency      \* the resident keys, least recently touched first

vars == <<list, entries, cost, MaxCost, OnRetrieve, OnEvict, last, recency>>

VARIABLES
    slots,       \* s.slots
    closed,      \* s.closed
    lock,        \* s.lock: the goroutine that holds it, or Nil
    cond,        \* s.cond: the goroutines parked in s.cond.Wait()
    base,        \* the size the semaphore was created with (Strict's base)
    strict,      \* whether the semaphore is a Strict
    taken,       \* slots Acquire has returned less slots released, while open
    gor          \* the goroutines: the call each is in and what it returned

semVars == <<slots, closed, lock, cond, base, strict, taken, gor>>

\* The goroutines that use the semaphore.
Goroutines == 1..NumGoroutines

\* A goroutine that has made no call yet.
Fresh ==
    [pc |-> "done", op |-> "none", n |-> 0, ret |-> 0, err |-> "none",
     panicked |-> FALSE, waited |-> FALSE, avail |-> 0]

\* New(size), with no goroutine in a call.
NewSemaphore(size, isStrict) ==
    /\ slots = size
    /\ closed = FALSE
    /\ lock = Nil
    /\ cond = {}
    /\ base = size
    /\ strict = isStrict
    /\ taken = 0
    /\ gor = [g \in Goroutines |-> Fresh]

VARIABLES
    instances,   \* rc.instances
    rcLock,      \* rc.lock: the caller that holds it, or Nil
    decs,        \* the decrementers: made by newCloser, d.lock, d.rc # nil,
                 \* and whether a Close on it has failed in the closer
    resource,    \* what the opener and the closer have done so far
    handed,      \* the closers that Increment has returned
    closedOk,    \* the closers on which a Close has decremented and returned nil
    rgo          \* the callers: the call each is in and what it returned

rcVars == <<instances, rcLock, decs, resource, handed, closedOk, rgo>>

\* The goroutines that use the RefCount, and the decrementers it can make.
Callers == 1..NumCallers
Closers == 1..NumClosers

\* A caller that has made no call yet.
FreshCaller ==
    [pc |-> "done", op |-> "none", d |-> Nil, err |-> "none",
     found |-> -1, invoked |-> "none"]

\* refcount.New(opener, closer), with no caller in a call.
NewRefCount ==
    /\ instances = 0
    /\ rcLock = Nil
    /\ decs = [d \in Closers |->
                  [made |-> FALSE, lock |-> Nil, rc |-> FALSE, failed |-> FALSE]]
    /\ resource = [open |-> FALSE, alternates |-> TRUE, failed |-> FALSE]
    /\ handed = {}
    /\ closedOk = {}
    /\ rgo = [g \in Callers |-> FreshCaller]

\* The variables of the packages other than lru, and other than semaphore.
notCache == <<semVars, rcVars>>
notSemaphore == <<vars, rcVars>>

----------------------------------------------------------------------------
\* container/list operations, on handles.

Has(l, e) == \E i \in 1..Len(l) : l[i].key = e

Index(l, e) == CHOOSE i \in 1..Len(l) : l[i].key = e

Remove(l, e) == SelectSeq(l, LAMBDA x : x.key # e)

\* MoveToBack that leaves the element where it is.
MoveToBackStays(l, e) == l

MoveToBack(l, e) == IF Has(l, e) THEN Append(Remove(l, e), l[Index(l, e)]) ELSE l

\* PushBack that pushes at the front.
PushBackAtFront(l, c) == <<c>> \o l

PushBack(l, c) == Append(l, c)

\* Front that yields the back element.
FrontIsBack(l) == l[Len(l)]

Front(l) == Head(l)

\* The cell update with the value left as it was.
SetCellCostOnly(l, e, cst, value) ==
    [i \in 1..Len(l) |->
        IF l[i].key = e THEN [key |-> l[i].key, value |-> l[i].value, cost |-> cst]
        ELSE l[i]]

\* entryCell.cost = cost; entryCell.value = value, on the cell of element e.
SetCell(l, e, cst, value) ==
    [i \in 1..Len(l) |->
        IF l[i].key = e THEN [key |-> l[i].key, value |-> value, cost |-> cst]
        ELSE l[i]]

\* delete that leaves the key in the map.
DeleteSkipped(m, key) == m

\* delete(c.entries, key)
Delete(m, key) == [k \in (DOMAIN m) \ {key} |-> m[k]]

\* c.entries[key] = e
Store(m, key, e) == [k \in (DOMAIN m) \cup {key} |-> IF k = key THEN e ELSE m[k]]

\* len(c.entries)
LenEntries(m) == Cardinality(DOMAIN m)

\* The empty map.
EmptyMap == [k \in {} |-> Nil]

----------------------------------------------------------------------------
\* The running state of one call: the cache fields it has written so far, the
\* OnEvict invocations it has made, the keys it has removed, and whether it
\* has panicked.

Call(l, m, c) ==
    [list |-> l, entries |-> m, cost |-> c, evicted |-> <<>>, removed |-> <<>>,
     ret |-> Nil, panicked |-> FALSE, mid |-> c]

\* One OnEvict(key, value) invocation, with what the cache looked like to it.
Eviction(cell, m, c) ==
    [key |-> cell.key, value |-> cell.value, resident |-> cell.key \in DOMAIN m,
     cost |-> c]

EvictOldestCall(s) ==
    IF LenEntries(s.entries) = 0 THEN [s EXCEPT !.ret = Nil]
    ELSE IF s.list = <<>> THEN [s EXCEPT !.panicked = TRUE]
    ELSE LET value == Front(s.list)
             l2 == Remove(s.list, value.key)
             m2 == Delete(s.entries, value.key)
             c2 == Wrap(s.cost - value.cost)
         IN  [s EXCEPT !.list = l2, !.entries = m2, !.cost = c2,
                       !.removed = Append(@, value.key),
                       !.evicted = IF OnEvict
                                   THEN Append(@, Eviction(value, m2, c2))
                                   ELSE @,
                       !.ret = value.value]

\* Evict without the OnEvict invocation.
EvictCallSilent(s, key) ==
    IF key \notin DOMAIN s.entries THEN [s EXCEPT !.ret = Nil]
    ELSE LET entry == s.entries[key]
             value == s.list[Index(s.list, entry)]
         IN  [s EXCEPT !.list = Remove(s.list, entry),
                       !.entries = Delete(s.entries, value.key),
                       !.removed = Append(@, value.key),
                       !.ret = value.value]

\* Evict that falls back to the oldest entry when the key is missing.
EvictCallOrOldest(s, key) ==
    IF key \notin DOMAIN s.entries THEN EvictOldestCall(s)
    ELSE LET entry == s.entries[key]
             value == s.list[Index(s.list, entry)]
             m2 == Delete(s.entries, value.key)
         IN  [s EXCEPT !.list = Remove(s.list, entry), !.entries = m2,
                       !.removed = Append(@, value.key),
                       !.evicted = IF OnEvict
                                   THEN Append(@, Eviction(value, m2, s.cost))
                                   ELSE @,
                       !.ret = value.value]

EvictCall(s, key) ==
    IF key \notin DOMAIN s.entries THEN [s EXCEPT !.ret = Nil]
    ELSE LET entry == s.entries[key]
             value == s.list[Index(s.list, entry)]
             m2 == Delete(s.entries, value.key)
             l2 == Remove(s.list, entry)
         IN  [s EXCEPT !.list = l2, !.entries = m2,
                       !.removed = Append(@, value.key),
                       !.evicted = IF OnEvict
                                   THEN Append(@, Eviction(value, m2, s.cost))
                                   ELSE @,
                       !.ret = value.value]

\* The eviction loop as an if: one eviction at most.
EvictLoopOnce(s) ==
    IF s.cost > MaxCost /\ LenEntries(s.entries) > 1 /\ ~s.panicked
    THEN EvictOldestCall(s)
    ELSE s

\* The eviction loop without the exception for a last entry.
RECURSIVE EvictLoopToEmpty(_)
EvictLoopToEmpty(s) ==
    IF s.cost > MaxCost /\ LenEntries(s.entries) > 0 /\ ~s.panicked
    THEN EvictLoopToEmpty(EvictOldestCall(s))
    ELSE s

\* The eviction loop that also evicts at Cost() = MaxCost.
RECURSIVE EvictLoopAtMaxCost(_)
EvictLoopAtMaxCost(s) ==
    IF s.cost >= MaxCost /\ LenEntries(s.entries) > 1 /\ ~s.panicked
    THEN EvictLoopAtMaxCost(EvictOldestCall(s))
    ELSE s

\* for c.cost > c.MaxCost && len(c.entries) > 1 { c.EvictOldest() }
RECURSIVE EvictLoop(_)
EvictLoop(s) ==
    IF s.cost > MaxCost /\ LenEntries(s.entries) > 1 /\ ~s.panicked
    THEN EvictLoop(EvictOldestCall(s))
    ELSE s

\* for len(c.entries) > 0 { c.EvictOldest() }
RECURSIVE ClearLoop(_)
ClearLoop(s) ==
    IF LenEntries(s.entries) > 0 /\ ~s.panicked
    THEN ClearLoop(EvictOldestCall(s))
    ELSE s

\* The negative-cost check that lets every cost pass.
NegativeUnchecked(cst) == FALSE

\* if cost < 0 { panic(...) }
Negative(cst) == cst < 0

\* The overflow check that lets every sum pass.
OverflowsUnchecked(total, cst) == FALSE

\* if c.cost+cost < 0 { panic(...) }, on the total the entry is added to.
Overflows(total, cst) == Wrap(total + cst) < 0

\* Put that hands the value it replaces to OnEvict.
PutCallNotifies(s, key, cst, value) ==
    IF Negative(cst) THEN [s EXCEPT !.panicked = TRUE]
    ELSE IF key \in DOMAIN s.entries
    THEN LET entry == s.entries[key]
             i == Index(s.list, entry)
             entryCell == s.list[i]
         IN  IF Overflows(Wrap(s.cost - entryCell.cost), cst)
             THEN [s EXCEPT !.panicked = TRUE]
             ELSE LET l2 == MoveToBack(s.list, entry)
                      c2 == Wrap(Wrap(s.cost - entryCell.cost) + cst)
                      l3 == SetCell(l2, entry, cst, value)
                      n == IF OnEvict
                           THEN Append(s.evicted,
                                       Eviction(entryCell, s.entries, c2))
                           ELSE s.evicted
                  IN  [EvictLoop([s EXCEPT !.list = l3, !.cost = c2, !.mid = c2,
                                           !.evicted = n])
                          EXCEPT !.ret = entryCell.value]
    ELSE IF Overflows(s.cost, cst) THEN [s EXCEPT !.panicked = TRUE]
    ELSE LET l2 == PushBack(s.list, [key |-> key, value |-> value, cost |-> cst])
             m2 == Store(s.entries, key, key)
             c2 == Wrap(s.cost + cst)
         IN  [EvictLoop([s EXCEPT !.list = l2, !.entries = m2, !.cost = c2,
                                  !.mid = c2])
                 EXCEPT !.ret = Nil]

PutCall(s, key, cst, value) ==
    IF Negative(cst) THEN [s EXCEPT !.panicked = TRUE]
    ELSE IF key \in DOMAIN s.entries
    THEN LET entry == s.entries[key]
             i == Index(s.list, entry)
             entryCell == s.list[i]
         IN  IF Overflows(Wrap(s.cost - entryCell.cost), cst)
             THEN [s EXCEPT !.panicked = TRUE]
             ELSE LET l2 == MoveToBack(s.list, entry)
                      c2 == Wrap(Wrap(s.cost - entryCell.cost) + cst)
                      l3 == SetCell(l2, entry, cst, value)
                  IN  [EvictLoop([s EXCEPT !.list = l3, !.cost = c2, !.mid = c2])
                          EXCEPT !.ret = entryCell.value]
    ELSE IF Overflows(s.cost, cst) THEN [s EXCEPT !.panicked = TRUE]
    ELSE LET l2 == PushBack(s.list, [key |-> key, value |-> value, cost |-> cst])
             m2 == Store(s.entries, key, key)
             c2 == Wrap(s.cost + cst)
         IN  [EvictLoop([s EXCEPT !.list = l2, !.entries = m2, !.cost = c2,
                                  !.mid = c2])
                 EXCEPT !.ret = Nil]

----------------------------------------------------------------------------
\* What a call reports: its name and arguments (for a read-through Get, what
\* the retriever returned), what it returned, the OnRetrieve and OnEvict
\* invocations it made, and the cache as the call found it.

Report(op, key, cst, value, ret, err, retrieved, s) ==
    [op |-> op, key |-> key, cost |-> cst, value |-> value, ret |-> ret,
     err |-> err, panicked |-> s.panicked, retrieved |-> retrieved,
     evicted |-> s.evicted, removed |-> s.removed, mid |-> s.mid,
     pre |-> [list |-> list, entries |-> entries, cost |-> cost,
              recency |-> recency]]

Idle ==
    [op |-> "idle", key |-> Nil, cost |-> 0, value |-> Nil, ret |-> Nil,
     err |-> "nil", panicked |-> FALSE, retrieved |-> <<>>,
     evicted |-> <<>>, removed |-> <<>>, mid |-> 0,
     pre |-> [list |-> <<>>, entries |-> EmptyMap, cost |-> 0,
              recency |-> <<>>]]

\* One OnRetrieve(key) invocation and the error it returned.
Retrieval(key, err) == [key |-> key, err |-> err]

\* The fields as the call leaves them.
Commit(s) ==
    /\ list' = s.list
    /\ entries' = s.entries
    /\ cost' = s.cost

\* The order of last touch: a Get hit, a Put insert or a Put update makes its
\* key the most recently touched; a removed key leaves the order.
Without(r, ks) == SelectSeq(r, LAMBDA k : k \notin ks)

Touch(r, key) == Append(Without(r, {key}), key)

Range(q) == {q[i] : i \in 1..Len(q)}

Cost == cost

Init ==
    /\ list = <<>>
    /\ entries = EmptyMap
    /\ cost = 0
    /\ MaxCost \in MaxCosts
    /\ OnRetrieve = FALSE
    /\ OnEvict = FALSE
    /\ last = Idle
    /\ recency = <<>>
    /\ NewSemaphore(0, FALSE)
    /\ NewRefCount

\* A hit that goes on to enforce MaxCost.
GetHitEnforces(key) ==
    /\ last = Idle
    /\ key \in DOMAIN entries
    /\ LET entry == entries[key]
           s == EvictLoop(Call(MoveToBack(list, entry), entries, cost))
       IN  /\ Commit(s)
           /\ last' = Report("Get", key, 0, Nil, list[Index(list, entry)].value,
                             "nil", <<>>, s)
           /\ recency' = Without(Touch(recency, key), Range(s.removed))
    /\ UNCHANGED <<MaxCost, OnRetrieve, OnEvict>>
    /\ UNCHANGED notCache

GetHit(key) ==
    /\ last = Idle
    /\ key \in DOMAIN entries
    /\ LET entry == entries[key]
           l2 == MoveToBack(list, entry)
       IN  /\ list' = l2
           /\ last' = Report("Get", key, 0, Nil, list[Index(list, entry)].value,
                             "nil", <<>>, Call(l2, entries, cost))
    /\ recency' = Touch(recency, key)
    /\ UNCHANGED <<entries, cost, MaxCost, OnRetrieve, OnEvict>>
    /\ UNCHANGED notCache

\* A miss without retriever that reports no error.
GetMissingNoError(key) ==
    /\ last = Idle
    /\ key \notin DOMAIN entries
    /\ ~OnRetrieve
    /\ last' = Report("Get", key, 0, Nil, Nil, "nil", <<>>,
                      Call(list, entries, cost))
    /\ UNCHANGED <<list, entries, cost, MaxCost, OnRetrieve, OnEvict, recency>>
    /\ UNCHANGED notCache

GetMissing(key) ==
    /\ last = Idle
    /\ key \notin DOMAIN entries
    /\ ~OnRetrieve
    /\ last' = Report("Get", key, 0, Nil, Nil, "ErrMissingEntry", <<>>,
                      Call(list, entries, cost))
    /\ UNCHANGED <<list, entries, cost, MaxCost, OnRetrieve, OnEvict, recency>>
    /\ UNCHANGED notCache

\* A failed retrieval whose value is stored all the same.
GetRetrieveErrorStores(key) ==
    /\ last = Idle
    /\ key \notin DOMAIN entries
    /\ OnRetrieve
    /\ \E value \in Values \cup {Nil}, err \in RetrieveErrors :
          LET s == PutCall(Call(list, entries, cost), key, 0, value)
          IN  /\ Commit(s)
              /\ last' = Report("Get", key, 0, value, value, err,
                                <<Retrieval(key, err)>>, s)
              /\ recency' = Without(Touch(recency, key), Range(s.removed))
    /\ UNCHANGED <<MaxCost, OnRetrieve, OnEvict>>
    /\ UNCHANGED notCache

GetRetrieveError(key) ==
    /\ last = Idle
    /\ key \notin DOMAIN entries
    /\ OnRetrieve
    /\ \E value \in Values \cup {Nil}, err \in RetrieveErrors :
          last' = Report("Get", key, 0, value, value, err,
                         <<Retrieval(key, err)>>, Call(list, entries, cost))
    /\ UNCHANGED <<list, entries, cost, MaxCost, OnRetrieve, OnEvict, recency>>
    /\ UNCHANGED notCache

\* A retrieval whose value is returned and not stored.
GetRetrieveNoPut(key) ==
    /\ last = Idle
    /\ key \notin DOMAIN entries
    /\ OnRetrieve
    /\ \E value \in Values, cst \in Costs :
          last' = Report("Get", key, cst, value, value, "nil",
                         <<Retrieval(key, "nil")>>, Call(list, entries, cost))
    /\ UNCHANGED <<list, entries, cost, MaxCost, OnRetrieve, OnEvict, recency>>
    /\ UNCHANGED notCache

GetRetrieve(key) ==
    /\ last = Idle
    /\ key \notin DOMAIN entries
    /\ OnRetrieve
    /\ \E value \in Values, cst \in Costs :
          LET s == PutCall(Call(list, entries, cost), key, cst, value)
          IN  /\ Commit(s)
              /\ last' = Report("Get", key, cst, value,
                                IF s.panicked THEN Nil ELSE value, "nil",
                                <<Retrieval(key, "nil")>>, s)
              /\ recency' = IF s.panicked THEN recency
                            ELSE Without(Touch(recency, key), Range(s.removed))
    /\ UNCHANGED <<MaxCost, OnRetrieve, OnEvict>>
    /\ UNCHANGED notCache

Get(key) ==
    \/ GetHit(key)
    \/ GetMissing(key)
    \/ GetRetrieveError(key)
    \/ GetRetrieve(key)

Put(key, cst, value) ==
    /\ last = Idle
    /\ LET s == PutCall(Call(list, entries, cost), key, cst, value)
       IN  /\ Commit(s)
           /\ last' = Report("Put", key, cst, value, s.ret, "nil", <<>>, s)
           /\ recency' = IF s.panicked THEN recency
                         ELSE Without(Touch(recency, key), Range(s.removed))
    /\ UNCHANGED <<MaxCost, OnRetrieve, OnEvict>>
    /\ UNCHANGED notCache

Clear ==
    /\ last = Idle
    /\ LET s == ClearLoop(Call(list, entries, cost))
       IN  /\ Commit(s)
           /\ last' = Report("Clear", Nil, 0, Nil, Nil, "nil", <<>>, s)
           /\ recency' = Without(recency, Range(s.removed))
    /\ UNCHANGED <<MaxCost, OnRetrieve, OnEvict>>
    /\ UNCHANGED notCache

EvictOldest ==
    /\ last = Idle
    /\ LET s == EvictOldestCall(Call(list, entries, cost))
       IN  /\ Commit(s)
           /\ last' = Report("EvictOldest", Nil, 0, Nil, s.ret, "nil", <<>>, s)
           /\ recency' = Without(recency, Range(s.removed))
    /\ UNCHANGED <<MaxCost, OnRetrieve, OnEvict>>
    /\ UNCHANGED notCache

Evict(key) ==
    /\ last = Idle
    /\ LET s == EvictCall(Call(list, entries, cost), key)
       IN  /\ Commit(s)
           /\ last' = Report("Evict", key, 0, Nil, s.ret, "nil", <<>>, s)
           /\ recency' = Without(recency, Range(s.removed))
    /\ UNCHANGED <<MaxCost, OnRetrieve, OnEvict>>
    /\ UNCHANGED notCache

\* The caller takes the results of the call and goes on.
Return ==
    /\ last # Idle
    /\ last' = Idle
    /\ UNCHANGED <<list, entries, cost, MaxCost, OnRetrieve, OnEvict, recency>>
    /\ UNCHANGED notCache

\* An assignment of MaxCost that evicts the oldest entry when Cost() is over it.
SetMaxCostEvicts(m) ==
    /\ last = Idle
    /\ MaxCost' = m
    /\ LET s == IF cost > m THEN EvictOldestCall(Call(list, entries, cost))
                ELSE Call(list, entries, cost)
       IN  /\ Commit(s)
           /\ recency' = Without(recency, Range(s.removed))
    /\ UNCHANGED <<OnRetrieve, OnEvict, last>>
    /\ UNCHANGED notCache

\* c.MaxCost = m
SetMaxCost(m) ==
    /\ last = Idle
    /\ MaxCost' = m
    /\ UNCHANGED <<list, entries, cost, OnRetrieve, OnEvict, last, recency>>
    /\ UNCHANGED notCache

\* c.OnRetrieve = f, or c.OnRetrieve = nil
SetOnRetrieve(b) ==
    /\ last = Idle
    /\ OnRetrieve' = b
    /\ UNCHANGED <<list, entries, cost, MaxCost, OnEvict, last, recency>>
    /\ UNCHANGED notCache

\* c.OnEvict = f, or c.OnEvict = nil
SetOnEvict(b) ==
    /\ last = Idle
    /\ OnEvict' = b
    /\ UNCHANGED <<list, entries, cost, MaxCost, OnRetrieve, last, recency>>
    /\ UNCHANGED notCache

Calls ==
    \/ \E key \in Keys : Get(key)
    \/ \E key \in Keys, cst \in Costs, value \in Values : Put(key, cst, value)
    \/ Clear
    \/ EvictOldest
    \/ \E key \in Keys : Evict(key)
    \/ Return
    \/ \E b \in BOOLEAN : SetOnRetrieve(b)
    \/ \E b \in BOOLEAN : SetOnEvict(b)

Next ==
    \/ Calls
    \/ \E m \in MaxCosts : SetMaxCost(m)

Spec == Init /\ [][Next]_vars

\* The cache with MaxCost left as New set it.
SpecFixed == Init /\ [][Calls]_vars

----------------------------------------------------------------------------
\* Package semaphore.

\* The slot counts a caller may pass to Acquire and Release.
SlotCounts == 1..MaxSlots

\* The sizes New and NewStrict may be given.
Sizes == 0..MaxSize

\* s.cond.Broadcast() that wakes nobody.
BroadcastNone(c) == c

\* s.cond.Broadcast(): every parked goroutine is woken.
Broadcast(c) == {}

\* The loop condition of Acquire that never waits.
MustWaitNever(n) == FALSE

\* for s.slots < n && !s.closed { s.cond.Wait() }
MustWait(n) == slots < n /\ ~closed

\* if x := s.s.release(n); x > s.base { panic(...) }
OverBase(x) == strict /\ x > base

\* A call as it begins.
Begin(op, n) ==
    [pc |-> "lock", op |-> op, n |-> n, ret |-> 0, err |-> "none",
     panicked |-> FALSE, waited |-> FALSE, avail |-> 0]

\* A call that panics before it takes the lock.
Panic(op, n) == [Begin(op, n) EXCEPT !.pc = "done", !.panicked = TRUE]

\* The slots that the Release calls under way may still add.
Releasing ==
    LET RECURSIVE Sum(_)
        Sum(gs) == IF gs = {} THEN 0
                   ELSE LET g == CHOOSE x \in gs : TRUE
                        IN  (IF gor[g].op = "Release" /\ gor[g].pc # "done"
                             THEN gor[g].n ELSE 0) + Sum(gs \ {g})
    IN  Sum(Goroutines)

\* New(0) of package lru, with no call made.
NewCache ==
    /\ list = <<>>
    /\ entries = EmptyMap
    /\ cost = 0
    /\ MaxCost = 0
    /\ OnRetrieve = FALSE
    /\ OnEvict = FALSE
    /\ last = Idle
    /\ recency = <<>>

SemInit ==
    /\ \E size \in Sizes, isStrict \in BOOLEAN : NewSemaphore(size, isStrict)
    /\ NewCache
    /\ NewRefCount

\* s.Acquire(n), up to s.lock.Lock(): Strict panics on n > s.base and Basic
\* on n <= 0.
Acquire(g, n) ==
    /\ gor[g].pc = "done"
    /\ gor' = [gor EXCEPT ![g] = IF (strict /\ n > base) \/ n <= 0
                                 THEN Panic("Acquire", n)
                                 ELSE Begin("Acquire", n)]
    /\ UNCHANGED <<slots, closed, lock, cond, base, strict, taken>>
    /\ UNCHANGED notSemaphore

\* s.Release(n), up to s.lock.Lock(): panics on n <= 0.
Release(g, n) ==
    /\ gor[g].pc = "done"
    /\ slots + Releasing + n <= MaxSlots
    /\ gor' = [gor EXCEPT ![g] = IF n <= 0 THEN Panic("Release", n)
                                 ELSE Begin("Release", n)]
    /\ UNCHANGED <<slots, closed, lock, cond, base, strict, taken>>
    /\ UNCHANGED notSemaphore

\* s.Close(), up to s.lock.Lock().
Close(g) ==
    /\ gor[g].pc = "done"
    /\ gor' = [gor EXCEPT ![g] = Begin("Close", 0)]
    /\ UNCHANGED <<slots, closed, lock, cond, base, strict, taken>>
    /\ UNCHANGED notSemaphore

\* s.lock.Lock() returns.
Lock(g) ==
    /\ gor[g].pc = "lock"
    /\ lock = Nil
    /\ lock' = g
    /\ gor' = [gor EXCEPT ![g].pc = "locked"]
    /\ UNCHANGED <<slots, closed, cond, base, strict, taken>>
    /\ UNCHANGED notSemaphore

\* Acquire with the lock held: return 0 from a closed semaphore, park in
\* s.cond.Wait() (which gives up the lock), or take the slots.
AcquireLocked(g) ==
    /\ gor[g].pc = "locked"
    /\ gor[g].op = "Acquire"
    /\ lock = g
    /\ IF closed
       THEN /\ gor' = [gor EXCEPT ![g].pc = "done", ![g].ret = 0]
            /\ UNCHANGED <<slots, cond, taken>>
       ELSE IF MustWait(gor[g].n)
       THEN /\ cond' = cond \cup {g}
            /\ gor' = [gor EXCEPT ![g].pc = "wait", ![g].waited = TRUE]
            /\ UNCHANGED <<slots, taken>>
       ELSE /\ slots' = slots - gor[g].n
            /\ taken' = taken + gor[g].n
            /\ gor' = [gor EXCEPT ![g].pc = "done", ![g].ret = gor[g].n,
                                  ![g].avail = slots]
            /\ UNCHANGED cond
    /\ lock' = Nil
    /\ UNCHANGED <<closed, base, strict>>
    /\ UNCHANGED notSemaphore

\* s.cond.Wait() returns: the goroutine was woken and has the lock again.
Wake(g) ==
    /\ gor[g].pc = "wait"
    /\ g \notin cond
    /\ lock = Nil
    /\ lock' = g
    /\ gor' = [gor EXCEPT ![g].pc = "locked"]
    /\ UNCHANGED <<slots, closed, cond, base, strict, taken>>
    /\ UNCHANGED notSemaphore

\* release with the lock held, and Strict's check of what it returned.
ReleaseLocked(g) ==
    /\ gor[g].pc = "locked"
    /\ gor[g].op = "Release"
    /\ lock = g
    /\ IF closed
       THEN /\ gor' = [gor EXCEPT ![g].pc = "done", ![g].ret = 0]
            /\ UNCHANGED <<slots, cond, taken>>
       ELSE /\ slots' = slots + gor[g].n
            /\ taken' = taken - gor[g].n
            /\ cond' = Broadcast(cond)
            /\ gor' = [gor EXCEPT ![g].pc = "done",
                                  ![g].panicked = OverBase(slots')]
    /\ lock' = Nil
    /\ UNCHANGED <<closed, base, strict>>
    /\ UNCHANGED notSemaphore

\* Close with the lock held that wakes nobody.
CloseLockedSilent(g) ==
    /\ gor[g].pc = "locked"
    /\ gor[g].op = "Close"
    /\ lock = g
    /\ closed' = TRUE
    /\ gor' = [gor EXCEPT ![g].pc = "done", ![g].err = "nil"]
    /\ lock' = Nil
    /\ UNCHANGED <<slots, cond, base, strict, taken>>
    /\ UNCHANGED notSemaphore

\* Close with the lock held.
CloseLocked(g) ==
    /\ gor[g].pc = "locked"
    /\ gor[g].op = "Close"
    /\ lock = g
    /\ IF ~closed
       THEN closed' = TRUE /\ cond' = Broadcast(cond)
       ELSE UNCHANGED <<closed, cond>>
    /\ gor' = [gor EXCEPT ![g].pc = "done", ![g].err = "nil"]
    /\ lock' = Nil
    /\ UNCHANGED <<slots, base, strict, taken>>
    /\ UNCHANGED notSemaphore

SemNext ==
    \/ \E g \in Goroutines, n \in SlotCounts : Acquire(g, n)
    \/ \E g \in Goroutines, n \in SlotCounts : Release(g, n)
    \/ \E g \in Goroutines : Close(g)
    \/ \E g \in Goroutines : Lock(g)
    \/ \E g \in Goroutines : AcquireLocked(g)
    \/ \E g \in Goroutines : Wake(g)
    \/ \E g \in Goroutines : ReleaseLocked(g)
    \/ \E g \in Goroutines : CloseLocked(g)

SemSpec == SemInit /\ [][SemNext]_semVars

\* The scheduler runs every goroutine that can run, and sync.Mutex hands the
\* lock to a goroutine that keeps waiting for it.
\* A step of goroutine g inside a call.
Step(g) ==
    \/ Lock(g)
    \/ Wake(g)
    \/ AcquireLocked(g)
    \/ ReleaseLocked(g)
    \/ CloseLocked(g)

SemFairness == \A g \in Goroutines : SF_semVars(Step(g))

SemSpecFair == SemSpec /\ SemFairness

----------------------------------------------------------------------------
\* Package refcount.

notRefCount == <<vars, semVars>>

\* if rc.instances == 0, taken as true of every count.
NeedsOpenAlways(n) == TRUE

\* if rc.instances == 0 { err := rc.opener() ... }
NeedsOpen(n) == n = 0

\* if d.rc.instances == 1 { err := d.rc.closer() ... }
NeedsClose(n) == n = 1

\* The count after a failed closer, decremented all the same.
AfterCloserErrorDecrements(n) == n - 1

\* return err // Don't decrement; allow retry.
AfterCloserError(n) == n

\* d.rc = nil that leaves d.rc as it was.
DisarmSkipped(dec) == dec

\* d.rc = nil // Prevent multiple decrement.
Disarm(dec) == [dec EXCEPT !.rc = FALSE]

\* The opener or the closer has returned: nil (ok) or an error.
Opened(ok) ==
    IF ok THEN [resource EXCEPT !.open = TRUE, !.alternates = @ /\ ~resource.open]
    ELSE [resource EXCEPT !.failed = TRUE]

Shut(ok) ==
    IF ok THEN [resource EXCEPT !.open = FALSE, !.alternates = @ /\ resource.open]
    ELSE [resource EXCEPT !.failed = TRUE]

\* A call as it begins.
BeginCall(op, d) ==
    [pc |-> IF op = "Close" THEN "dlock" ELSE "rclock", op |-> op, d |-> d,
     err |-> "none", found |-> -1, invoked |-> "none"]

\* The decrementers that Increment calls under way may still make.
Incrementing == Cardinality({g \in Callers : rgo[g].op = "Increment" /\ rgo[g].pc # "done"})

Made == {d \in Closers : decs[d].made}

RcInit ==
    /\ NewRefCount
    /\ NewCache
    /\ NewSemaphore(0, FALSE)

\* rc.Increment(), up to rc.lock.Lock().
Increment(g) ==
    /\ rgo[g].pc = "done"
    /\ Cardinality(Made) + Incrementing < NumClosers
    /\ rgo' = [rgo EXCEPT ![g] = BeginCall("Increment", Nil)]
    /\ UNCHANGED <<instances, rcLock, decs, resource, handed, closedOk>>
    /\ UNCHANGED notRefCount

\* d.Close() on a closer that Increment has returned, by its holder or by the
\* finalizer, up to d.lock.Lock().
DecrementerClose(g, d) ==
    /\ rgo[g].pc = "done"
    /\ d \in handed
    /\ rgo' = [rgo EXCEPT ![g] = BeginCall("Close", d)]
    /\ UNCHANGED <<instances, rcLock, decs, resource, handed, closedOk>>
    /\ UNCHANGED notRefCount

\* d.lock.Lock() returns.
DLock(g) ==
    /\ rgo[g].pc = "dlock"
    /\ decs[rgo[g].d].lock = Nil
    /\ decs' = [decs EXCEPT ![rgo[g].d].lock = g]
    /\ rgo' = [rgo EXCEPT ![g].pc = "dlocked"]
    /\ UNCHANGED <<instances, rcLock, resource, handed, closedOk>>
    /\ UNCHANGED notRefCount

\* if d.rc == nil { return nil } that returns with d.lock held.
AlreadyClosedKeepsLock(g) ==
    /\ rgo[g].pc = "dlocked"
    /\ rgo' = [rgo EXCEPT ![g].pc = IF decs[rgo[g].d].rc THEN "rclock" ELSE "done",
                          ![g].err = IF decs[rgo[g].d].rc THEN @ ELSE "nil"]
    /\ UNCHANGED <<instances, rcLock, decs, resource, handed, closedOk>>
    /\ UNCHANGED notRefCount

\* if d.rc == nil { return nil }, with d.lock held.
AlreadyClosed(g) ==
    /\ rgo[g].pc = "dlocked"
    /\ IF ~decs[rgo[g].d].rc
       THEN /\ rgo' = [rgo EXCEPT ![g].pc = "done", ![g].err = "nil"]
            /\ decs' = [decs EXCEPT ![rgo[g].d].lock = Nil]
       ELSE /\ rgo' = [rgo EXCEPT ![g].pc = "rclock"]
            /\ UNCHANGED decs
    /\ UNCHANGED <<instances, rcLock, resource, handed, closedOk>>
    /\ UNCHANGED notRefCount

\* rc.lock.Lock() that does not wait for the lock.
RcLockUnchecked(g) ==
    /\ rgo[g].pc = "rclock"
    /\ rcLock' = g
    /\ rgo' = [rgo EXCEPT ![g].pc = "rclocked"]
    /\ UNCHANGED <<instances, decs, resource, handed, closedOk>>
    /\ UNCHANGED notRefCount

\* rc.lock.Lock() returns.
RcLock(g) ==
    /\ rgo[g].pc = "rclock"
    /\ rcLock = Nil
    /\ rcLock' = g
    /\ rgo' = [rgo EXCEPT ![g].pc = "rclocked"]
    /\ UNCHANGED <<instances, decs, resource, handed, closedOk>>
    /\ UNCHANGED notRefCount

\* Increment with rc.lock held finds no open instance and calls rc.opener().
CallOpener(g) ==
    /\ rgo[g].pc = "rclocked"
    /\ rgo[g].op = "Increment"
    /\ NeedsOpen(instances)
    /\ rgo' = [rgo EXCEPT ![g].pc = "opening", ![g].found = instances,
                          ![g].invoked = "opener"]
    /\ UNCHANGED <<instances, rcLock, decs, resource, handed, closedOk>>
    /\ UNCHANGED notRefCount

\* The opener fails and the count goes up all the same.
IncrementOpenErrorCounts(g) ==
    /\ rgo[g].pc = "opening"
    /\ resource' = Opened(FALSE)
    /\ instances' = instances + 1
    /\ rgo' = [rgo EXCEPT ![g].pc = "done", ![g].err = "error"]
    /\ rcLock' = Nil
    /\ UNCHANGED <<decs, handed, closedOk>>
    /\ UNCHANGED notRefCount

\* The opener returns an error, and Increment returns it.
IncrementOpenError(g) ==
    /\ rgo[g].pc = "opening"
    /\ resource' = Opened(FALSE)
    /\ rgo' = [rgo EXCEPT ![g].pc = "done", ![g].err = "error"]
    /\ rcLock' = Nil
    /\ UNCHANGED <<instances, decs, handed, closedOk>>
    /\ UNCHANGED notRefCount

\* Increment with rc.lock held, the opener not needed or having returned nil:
\* rc.instances++ and newCloser.
IncrementLocked(g) ==
    /\ rgo[g].pc = IF NeedsOpen(instances) THEN "opening" ELSE "rclocked"
    /\ rgo[g].op = "Increment"
    /\ LET d == CHOOSE x \in Closers \ Made : TRUE
       IN  /\ resource' = IF rgo[g].pc = "opening" THEN Opened(TRUE) ELSE resource
           /\ instances' = instances + 1
           /\ decs' = [decs EXCEPT ![d] = [made |-> TRUE, lock |-> Nil,
                                           rc |-> TRUE, failed |-> FALSE]]
           /\ handed' = handed \cup {d}
           /\ rgo' = [rgo EXCEPT ![g].pc = "done", ![g].err = "nil",
                                 ![g].found = instances]
    /\ rcLock' = Nil
    /\ UNCHANGED closedOk
    /\ UNCHANGED notRefCount

\* Close with both locks held finds one open instance and calls d.rc.closer().
CallCloser(g) ==
    /\ rgo[g].pc = "rclocked"
    /\ rgo[g].op = "Close"
    /\ NeedsClose(instances)
    /\ rgo' = [rgo EXCEPT ![g].pc = "closing", ![g].found = instances,
                          ![g].invoked = "closer"]
    /\ UNCHANGED <<instances, rcLock, decs, resource, handed, closedOk>>
    /\ UNCHANGED notRefCount

\* The closer fails and the decrementer is disarmed all the same.
CloseCloserErrorDisarms(g) ==
    /\ rgo[g].pc = "closing"
    /\ resource' = Shut(FALSE)
    /\ instances' = AfterCloserError(instances)
    /\ rgo' = [rgo EXCEPT ![g].pc = "done", ![g].err = "error"]
    /\ decs' = [decs EXCEPT ![rgo[g].d] =
                   [Disarm(@) EXCEPT !.lock = Nil, !.failed = TRUE]]
    /\ rcLock' = Nil
    /\ UNCHANGED <<handed, closedOk>>
    /\ UNCHANGED notRefCount

\* The closer returns an error, and Close returns it.
CloseCloserError(g) ==
    /\ rgo[g].pc = "closing"
    /\ resource' = Shut(FALSE)
    /\ instances' = AfterCloserError(instances)
    /\ rgo' = [rgo EXCEPT ![g].pc = "done", ![g].err = "error"]
    /\ decs' = [decs EXCEPT ![rgo[g].d].lock = Nil, ![rgo[g].d].failed = TRUE]
    /\ rcLock' = Nil
    /\ UNCHANGED <<handed, closedOk>>
    /\ UNCHANGED notRefCount

\* Close with both locks held, the closer not needed or having returned nil:
\* d.rc.instances-- and d.rc = nil.
CloseLockedDecrements(g) ==
    /\ rgo[g].pc = IF NeedsClose(instances) THEN "closing" ELSE "rclocked"
    /\ rgo[g].op = "Close"
    /\ resource' = IF rgo[g].pc = "closing" THEN Shut(TRUE) ELSE resource
    /\ instances' = instances - 1
    /\ decs' = [decs EXCEPT ![rgo[g].d] = [Disarm(@) EXCEPT !.lock = Nil]]
    /\ closedOk' = closedOk \cup {rgo[g].d}
    /\ rgo' = [rgo EXCEPT ![g].pc = "done", ![g].err = "nil",
                          ![g].found = instances]
    /\ rcLock' = Nil
    /\ UNCHANGED handed
    /\ UNCHANGED notRefCount

\* rc.Instances(): the count, read with rc.lock held.
Instances == instances

RcNext ==
    \/ \E g \in Callers : Increment(g)
    \/ \E g \in Callers, d \in Closers : DecrementerClose(g, d)
    \/ \E g \in Callers : DLock(g)
    \/ \E g \in Callers : AlreadyClosed(g)
    \/ \E g \in Callers : RcLock(g)
    \/ \E g \in Callers : CallOpener(g)
    \/ \E g \in Callers : IncrementOpenError(g)
    \/ \E g \in Callers : IncrementLocked(g)
    \/ \E g \in Callers : CallCloser(g)
    \/ \E g \in Callers : CloseCloserError(g)
    \/ \E g \in Callers : CloseLockedDecrements(g)

RcSpec == RcInit /\ [][RcNext]_rcVars

\* A step of caller g inside a call; the opener and the closer return.
RcStep(g) ==
    \/ DLock(g)
    \/ AlreadyClosed(g)
    \/ RcLock(g)
    \/ CallOpener(g)
    \/ IncrementOpenError(g)
    \/ IncrementLocked(g)
    \/ CallCloser(g)
    \/ CloseCloserError(g)
    \/ CloseLockedDecrements(g)

\* The scheduler runs every caller that can run, and sync.Mutex hands a lock
\* to a caller that keeps waiting for it.
RcFairness == \A g \in Callers : SF_rcVars(RcStep(g))

RcSpecFair == RcSpec /\ RcFairness

----------------------------------------------------------------------------
\* Vocabulary of the properties, kept apart from the operators of the model.

RECURSIVE SumCost(_)
SumCost(l) == IF l = <<>> THEN 0 ELSE Head(l).cost + SumCost(Tail(l))

\* The keys of the cells of l, front first.
KeyOrder(l) == [i \in 1..Len(l) |-> l[i].key]

Resident(l) == {l[i].key : i \in 1..Len(l)}

\* The cell of key k in l.
CellFor(l, k) == l[CHOOSE i \in 1..Len(l) : l[i].key = k]

\* l without the cells of the keys ks, the others in their order.
Dropping(l, ks) == SelectSeq(l, LAMBDA c : c.key \notin ks)

\* The call that has just returned was made on a resident key.
OnResident == last.key \in DOMAIN last.pre.entries

\* C1: after any sequence of calls, Cost() is the sum of the costs of the
\* resident entries, and so is not negative.
CostIsSumOfEntries == Cost = SumCost(list) /\ Cost >= 0

\* C2: with MaxCost fixed, after every call either Cost() <= MaxCost or the
\* cache holds exactly one entry, whose own cost exceeds MaxCost.
WithinMaxCostOrJumbo ==
    \/ Cost <= MaxCost
    \/ /\ LenEntries(entries) = 1
       /\ Len(list) = 1
       /\ list[1].cost > MaxCost

\* C3: the entries a Put, a read-through Get or an EvictOldest removes are the
\* least recently touched ones, in the order of their last touch, the touch of
\* the call itself counted.
TouchOrder ==
    IF last.op = "EvictOldest" THEN last.pre.recency
    ELSE Touch(last.pre.recency, last.key)

EvictsLeastRecentlyTouched ==
    last.op \in {"Put", "Get", "EvictOldest"} =>
        /\ Len(last.removed) <= Len(TouchOrder)
        /\ \A i \in 1..Len(last.removed) : last.removed[i] = TouchOrder[i]
        /\ (last.op = "EvictOldest" /\ last.pre.recency # <<>>
               => Len(last.removed) = 1)

\* A Put on the least recently touched key that went on to evict another key.
EvictsAfterTouch ==
    /\ last.op = "Put"
    /\ OnResident
    /\ last.pre.recency[1] = last.key
    /\ last.removed # <<>>

\* C4: Evict(key) on a resident key removes that entry only, lowers Cost() by
\* its cost, invokes OnEvict (if set) once with its key and value, returns its
\* value and leaves the other entries in their order.
EvictRemovesEntry ==
    (last.op = "Evict" /\ OnResident) =>
        LET old == CellFor(last.pre.list, last.key)
        IN  /\ list = Dropping(last.pre.list, {last.key})
            /\ DOMAIN entries = (DOMAIN last.pre.entries) \ {last.key}
            /\ Cost = last.pre.cost - old.cost
            /\ last.ret = old.value
            /\ IF OnEvict
               THEN /\ Len(last.evicted) = 1
                    /\ last.evicted[1].key = last.key
                    /\ last.evicted[1].value = old.value
               ELSE last.evicted = <<>>

\* C5: Put on a resident key keeps one entry for the key, gives it the new
\* value and cost, changes Cost() by new cost minus old cost before any
\* eviction, makes it the most recently used and returns the previous value; a
\* Get of the key then finds the new value.
PutUpdatesInPlace ==
    (last.op = "Put" /\ OnResident /\ ~last.panicked) =>
        LET old == CellFor(last.pre.list, last.key)
        IN  /\ Cardinality({i \in 1..Len(list) : list[i].key = last.key}) = 1
            /\ list[Len(list)] =
                  [key |-> last.key, value |-> last.value, cost |-> last.cost]
            /\ last.mid = last.pre.cost - old.cost + last.cost
            /\ last.ret = old.value
            /\ last.key \in DOMAIN entries
            /\ CellFor(list, entries[last.key]).value = last.value
            /\ Resident(list) \subseteq Resident(last.pre.list)

\* A Put that gave a resident key, not the most recently used one, another
\* value and another cost.
PutUpdated ==
    /\ last.op = "Put" /\ OnResident /\ ~last.panicked
    /\ LET old == CellFor(last.pre.list, last.key)
       IN  /\ old.value # last.value
           /\ old.cost # last.cost
           /\ last.pre.list[Len(last.pre.list)].key # last.key

\* C6: Put on a key that is not resident appends the entry as the most
\* recently used, adds its cost to Cost() before any eviction, returns nil and
\* does not invoke OnRetrieve.
PutInsertsNew ==
    (last.op = "Put" /\ ~OnResident /\ ~last.panicked) =>
        /\ list[Len(list)] =
              [key |-> last.key, value |-> last.value, cost |-> last.cost]
        /\ Cardinality({i \in 1..Len(list) : list[i].key = last.key}) = 1
        /\ Dropping(list, {last.key}) =
              Dropping(last.pre.list, Range(last.removed))
        /\ last.key \in DOMAIN entries
        /\ last.mid = last.pre.cost + last.cost
        /\ last.ret = Nil
        /\ last.retrieved = <<>>

\* A Put of a new key into a cache that held entries and had OnRetrieve set.
PutInserted ==
    /\ last.op = "Put" /\ ~OnResident /\ ~last.panicked
    /\ last.pre.list # <<>>
    /\ last.cost > 0
    /\ OnRetrieve

\* C7: Get on a resident key returns the entry's value and a nil error and
\* makes the entry the most recently used; Cost(), the entries and their costs
\* stay as they were and no callback is invoked, also when Cost() exceeds
\* MaxCost.
GetHitOnlyPromotes ==
    (last.op = "Get" /\ OnResident) =>
        LET old == CellFor(last.pre.list, last.key)
        IN  /\ last.ret = old.value
            /\ last.err = "nil"
            /\ ~last.panicked
            /\ list = Append(Dropping(last.pre.list, {last.key}), old)
            /\ entries = last.pre.entries
            /\ Cost = last.pre.cost
            /\ last.retrieved = <<>>
            /\ last.evicted = <<>>
            /\ last.removed = <<>>

\* A Get that hit the oldest of several entries while the entries' costs
\* exceeded MaxCost and both callbacks were set.
GetHitOverMaxCost ==
    /\ last.op = "Get" /\ OnResident
    /\ Len(list) > 1
    /\ last.pre.list[1].key = last.key
    /\ SumCost(list) > MaxCost
    /\ OnRetrieve /\ OnEvict

\* C8: with a retriever, a Get that misses invokes OnRetrieve once, with its
\* key, and returns what it retrieved, which is then resident; a Get that hits
\* invokes no retriever and returns the resident value; a resident value
\* changes only by a Put on its key; a removed key is resident no more, so
\* that the next Get of it retrieves again.
ReadThrough ==
    /\ (last.op = "Get" /\ ~OnResident /\ OnRetrieve) =>
          /\ Len(last.retrieved) = 1
          /\ last.retrieved[1].key = last.key
          /\ (~last.panicked => last.ret = last.value)
          /\ (~last.panicked /\ last.err = "nil" =>
                /\ last.key \in DOMAIN entries
                /\ last.key \in Resident(list)
                /\ CellFor(list, last.key).value = last.value)
    /\ (last.op = "Get" /\ OnResident) =>
          /\ last.retrieved = <<>>
          /\ last.ret = CellFor(last.pre.list, last.key).value
    /\ last.op # "Get" => last.retrieved = <<>>
    /\ last.op # "idle" =>
          /\ \A k \in Resident(list) \cap Resident(last.pre.list) :
                \/ last.op = "Put" /\ last.key = k
                \/ CellFor(list, k).value = CellFor(last.pre.list, k).value
          /\ \A i \in 1..Len(last.removed) :
                /\ last.removed[i] \notin DOMAIN entries
                /\ last.removed[i] \notin Resident(list)

\* A Get that missed, retrieved its value and evicted another entry for it.
RetrievedAndEvicted ==
    /\ last.op = "Get" /\ ~OnResident /\ OnRetrieve
    /\ ~last.panicked /\ last.err = "nil"
    /\ last.removed # <<>>

\* C9: when the retriever returns an error, Get returns that error, inserts
\* and evicts nothing, invokes no OnEvict, and leaves Cost(), the entries and
\* their order as they were; the key is still not resident, so that the next
\* Get of it retrieves again.
RetrieveErrorLeavesCache ==
    (last.op = "Get" /\ last.retrieved # <<>> /\ last.retrieved[1].err # "nil") =>
        /\ last.err = last.retrieved[1].err
        /\ ~last.panicked
        /\ list = last.pre.list
        /\ entries = last.pre.entries
        /\ Cost = last.pre.cost
        /\ last.evicted = <<>>
        /\ last.removed = <<>>
        /\ last.key \notin DOMAIN entries
        /\ last.key \notin Resident(list)

\* A failed retrieval, with a value, on a cache that holds entries and has
\* OnEvict set.
RetrieveFailed ==
    /\ last.op = "Get" /\ last.err \in RetrieveErrors
    /\ last.value # Nil
    /\ list # <<>>
    /\ OnEvict

\* C10: without a retriever, Get on a key that is not resident returns nil
\* and ErrMissingEntry and leaves the cache as it was, and Get on a resident
\* key returns no error; ErrMissingEntry is the only error of that mode.
MissingEntryWithoutRetriever ==
    (last.op = "Get" /\ ~OnRetrieve) =>
        /\ ~last.panicked
        /\ last.retrieved = <<>>
        /\ last.err \in {"nil", "ErrMissingEntry"}
        /\ IF OnResident
           THEN last.err = "nil"
           ELSE /\ last.ret = Nil
                /\ last.err = "ErrMissingEntry"
                /\ list = last.pre.list
                /\ entries = last.pre.entries
                /\ Cost = last.pre.cost
                /\ last.evicted = <<>>
                /\ last.removed = <<>>

\* A Get without retriever that missed on a cache that holds entries.
MissedWithoutRetriever ==
    /\ last.op = "Get" /\ ~OnRetrieve /\ ~OnResident
    /\ last.err = "ErrMissingEntry"
    /\ list # <<>>

\* The call that has just returned is an insertion: a Put, or a Get that
\* missed and whose retriever returned no error.
Insertion ==
    \/ last.op = "Put"
    \/ /\ last.op = "Get"
       /\ last.retrieved # <<>>
       /\ last.retrieved[1].err = "nil"

\* The call that has just returned left the cache as it found it.
CacheAsBefore ==
    /\ list = last.pre.list
    /\ entries = last.pre.entries
    /\ Cost = last.pre.cost
    /\ recency = last.pre.recency
    /\ last.evicted = <<>>
    /\ last.removed = <<>>

\* The cost the key of the call had in the cache the call found, or 0.
OldCost ==
    IF last.key \in Resident(last.pre.list)
    THEN CellFor(last.pre.list, last.key).cost
    ELSE 0

\* C11: a negative cost, passed to Put or returned by the retriever, makes the
\* call panic and leaves the entries, their values and costs, their order and
\* Cost() as they were, with no OnEvict invocation, for a new key and for a
\* resident one.
NegativeCostPanics ==
    (Insertion /\ last.cost < 0) => (last.panicked /\ CacheAsBefore)

\* A Put with a negative cost on a resident key of a cache of several entries,
\* which has OnEvict set and is over MaxCost.
NegativeCostOnResident ==
    /\ last.op = "Put" /\ last.cost < 0 /\ OnResident
    /\ Len(last.pre.list) > 1
    /\ last.pre.cost > MaxCost
    /\ OnEvict

\* C12: an insertion whose total (Cost(), or the sum of the resident costs),
\* less the old cost of the key, plus the new cost exceeds MaxInt64 panics, and
\* leaves the entries, their costs, their order and Cost() as they were.
OverflowPanics ==
    (/\ Insertion
     /\ last.cost >= 0
     /\ \/ last.pre.cost - OldCost + last.cost > MaxInt64
        \/ SumCost(last.pre.list) - OldCost + last.cost > MaxInt64)
    => (last.panicked /\ CacheAsBefore /\ Cost >= 0)

\* A Put on a resident key that makes the resident costs exceed MaxInt64.
OverflowOnResident ==
    /\ last.op = "Put" /\ OnResident /\ last.cost >= 0
    /\ Len(last.pre.list) > 1
    /\ SumCost(last.pre.list) - OldCost + last.cost > MaxInt64

\* C13: an insertion of an entry that alone costs more than MaxCost succeeds
\* and leaves that entry as the only one, found by Get; the next insertion
\* of another key evicts it.
JumboEntry ==
    /\ (Insertion /\ ~last.panicked /\ last.cost > MaxCost) =>
          /\ list = <<[key |-> last.key, value |-> last.value,
                       cost |-> last.cost]>>
          /\ DOMAIN entries = {last.key}
          /\ entries[last.key] = last.key
          /\ Resident(last.pre.list) \ {last.key} \subseteq Range(last.removed)
    /\ (/\ Insertion /\ ~last.panicked
        /\ Len(last.pre.list) = 1
        /\ last.pre.list[1].cost > MaxCost
        /\ last.pre.list[1].key # last.key) =>
          /\ last.removed # <<>>
          /\ last.removed[1] = last.pre.list[1].key
          /\ last.pre.list[1].key \notin DOMAIN entries
          /\ last.pre.list[1].key \notin Resident(list)

\* An insertion of a jumbo entry into a cache that held another jumbo entry.
JumboReplacesJumbo ==
    /\ Insertion /\ ~last.panicked /\ last.cost > MaxCost
    /\ Len(last.pre.list) = 1
    /\ last.pre.list[1].cost > MaxCost
    /\ last.pre.list[1].key # last.key
    /\ list # <<>>

\* The first n elements of q, as a set.
Prefix(q, n) == {q[j] : j \in 1..n}

\* The sum of the costs the keys ks had in l.
CostOfKeys(l, ks) == SumCost(SelectSeq(l, LAMBDA c : c.key \in ks))

\* The sum of the costs of the resident entries right after the insertion,
\* before any eviction.
InsertedSum == SumCost(last.pre.list) - OldCost + last.cost

CallsEnforceLazily ==
    /\ (last.op = "Get" /\ OnResident) => Resident(list) = Resident(last.pre.list)
    /\ last.op = "Evict" =>
          Resident(list) = Resident(last.pre.list) \ {last.key}
    /\ last.op = "EvictOldest" => Len(last.removed) <= 1
    /\ (Insertion /\ ~last.panicked) =>
          /\ Cost <= MaxCost \/ LenEntries(entries) = 1
          /\ Len(last.removed) < Len(TouchOrder)
          /\ \A i \in 1..Len(last.removed) :
                /\ last.removed[i] = TouchOrder[i]
                /\ last.mid - CostOfKeys(last.pre.list, Prefix(last.removed, i - 1))
                      > MaxCost
          /\ Resident(list) =
                (Resident(last.pre.list) \cup {last.key}) \ Range(last.removed)

MaxCostIsLazy ==
    [][/\ MaxCost' # MaxCost => UNCHANGED <<list, entries, cost, recency>>
       /\ CallsEnforceLazily']_vars

\* An insertion that evicted two entries of a cache that was over MaxCost.
EnforcedAfterLowering ==
    /\ Insertion /\ ~last.panicked
    /\ Len(last.pre.list) > 1
    /\ SumCost(last.pre.list) > MaxCost
    /\ Len(last.removed) = 2

\* C16: an insertion evicts an entry only while the costs of the resident
\* entries sum to more than MaxCost: none when the sum after the insertion is
\* within MaxCost, and no further one once it is.
EvictsOnlyOverMaxCost ==
    (Insertion /\ ~last.panicked) =>
        \A i \in 1..Len(last.removed) :
            InsertedSum - CostOfKeys(last.pre.list, Prefix(last.removed, i - 1))
                > MaxCost

\* The OnEvict invocations of the call are one, with the key and value of cell.
NotifiedOnce(cell) ==
    IF OnEvict
    THEN /\ Len(last.evicted) = 1
         /\ last.evicted[1].key = cell.key
         /\ last.evicted[1].value = cell.value
    ELSE last.evicted = <<>>

\* C17: EvictOldest on a cache with entries removes the least recently used
\* entry and no other, lowers Cost() by its cost, invokes OnEvict (if set)
\* once with its key and value and returns its value; on an empty cache it
\* returns nil, does not panic, invokes nothing and changes nothing.
EvictOldestRemovesOldest ==
    last.op = "EvictOldest" =>
        /\ ~last.panicked
        /\ IF Resident(last.pre.list) = {} /\ DOMAIN last.pre.entries = {}
           THEN last.ret = Nil /\ CacheAsBefore
           ELSE LET old == CellFor(last.pre.list, last.pre.recency[1])
                IN  /\ list = Dropping(last.pre.list, {old.key})
                    /\ DOMAIN entries = (DOMAIN last.pre.entries) \ {old.key}
                    /\ Cost = last.pre.cost - old.cost
                    /\ last.ret = old.value
                    /\ last.removed = <<old.key>>
                    /\ NotifiedOnce(old)

\* An EvictOldest, with OnEvict set, on a cache of several entries of which
\* the oldest had a cost and was not the first inserted of those resident.
EvictedOldestOfSeveral ==
    /\ last.op = "EvictOldest"
    /\ OnEvict
    /\ Len(last.pre.list) > 1
    /\ last.pre.list[1].cost > 0
    /\ last.ret # last.pre.list[Len(last.pre.list)].value

\* C18: after Clear the cache holds no entry, Cost() is 0, and OnEvict (if
\* set) has been invoked once for each entry that was resident.
ClearEmptiesCache ==
    last.op = "Clear" =>
        /\ ~last.panicked
        /\ list = <<>>
        /\ DOMAIN entries = {}
        /\ Cost = 0
        /\ IF OnEvict
           THEN /\ Len(last.evicted) = Len(last.pre.list)
                /\ \A k \in Resident(last.pre.list) :
                      \E i \in 1..Len(last.evicted) :
                          /\ last.evicted[i].key = k
                          /\ last.evicted[i].value = CellFor(last.pre.list, k).value
           ELSE last.evicted = <<>>

\* C19: every entry a call removes is handed to OnEvict (if set) once, with
\* its key and the value it held, and no entry that stays is.
EveryRemovalNotified ==
    last.op # "idle" =>
        LET gone == (Resident(last.pre.list) \cup DOMAIN last.pre.entries)
                        \ (Resident(list) \cap DOMAIN entries)
        IN  IF OnEvict
            THEN /\ Len(last.evicted) = Cardinality(gone)
                 /\ \A k \in gone :
                       \E i \in 1..Len(last.evicted) :
                           /\ last.evicted[i].key = k
                           /\ last.evicted[i].value =
                                 CellFor(last.pre.list, k).value
                 /\ \A i \in 1..Len(last.evicted) : last.evicted[i].key \in gone
            ELSE last.evicted = <<>>

\* A Put on a resident key, with OnEvict set, that gave the key another value
\* and evicted two other entries.
UpdateEvictedTwo ==
    /\ last.op = "Put" /\ OnResident /\ ~last.panicked
    /\ OnEvict
    /\ last.ret # last.value
    /\ Len(last.evicted) = 2

\* Cost() right before the i-th removal of the call.
CostBefore(i) ==
    IF i > 1 THEN last.evicted[i - 1].cost
    ELSE IF Insertion THEN last.mid
    ELSE last.pre.cost

\* C20: when OnEvict is invoked for an entry, the key of the entry is resident
\* no more and Cost() is without the cost of the entry, in EvictOldest, Evict,
\* Clear and the loop of an insertion.
OnEvictSeesRemoval ==
    \A i \in 1..Len(last.evicted) :
        /\ ~last.evicted[i].resident
        /\ last.evicted[i].cost =
              CostBefore(i) - CellFor(last.pre.list, last.evicted[i].key).cost

\* C21: Evict(key) for a key that is not resident returns nil, invokes no
\* OnEvict and leaves the entries, the recency order and Cost() as they were.
EvictMissingIsNoOp ==
    (last.op = "Evict" /\ last.key \notin Resident(last.pre.list)) =>
        /\ last.ret = Nil
        /\ ~last.panicked
        /\ CacheAsBefore

\* An Evict of a key that is not resident, on a cache that holds other entries
\* with a cost, with OnEvict set.
EvictMissingAmongOthers ==
    /\ last.op = "Evict"
    /\ last.key \notin Resident(last.pre.list)
    /\ Len(last.pre.list) > 1
    /\ last.pre.cost > MaxCost
    /\ OnEvict

\* An insertion (Put, or Get through the retriever) that returned.
Inserted == Insertion /\ ~last.panicked

\* C22 as stated: with MaxCost 0 the cache never holds more than one entry
\* after a completed Put or Get.
OneEntryAtZeroMaxCost ==
    (MaxCost = 0 /\ last.op \in {"Put", "Get"}) => Len(list) <= 1

\* C22: with MaxCost left at 0, after a completed Put or Get the cache holds
\* one entry at most or entries of cost 0 only.
OneCostlyEntryAtZeroMaxCost ==
    (MaxCost = 0 /\ last.op \in {"Put", "Get"}) =>
        \/ Len(list) <= 1
        \/ \A i \in 1..Len(list) : list[i].cost = 0

\* With MaxCost 0, an insertion with a cost into a cache of two entries of
\* cost 0, which leaves the inserted entry alone in the cache.
CostlyEvictsZeroCost ==
    /\ MaxCost = 0
    /\ Inserted
    /\ last.cost > 0
    /\ Len(last.pre.list) = 2
    /\ SumCost(last.pre.list) = 0
    /\ last.key \notin Resident(last.pre.list)
    /\ KeyOrder(list) = <<last.key>>

\* C23: the eviction loop of an insertion and the loop of Clear run one
\* iteration per entry they remove, remove no key twice and only keys that
\* were resident, so they finish after at most as many iterations as there
\* were resident entries; Clear ends with the cache empty.
LoopsAreBounded ==
    last.op \in {"Put", "Get", "Clear"} =>
        /\ Len(last.removed) <= Len(last.pre.list)
        /\ Range(last.removed) \subseteq Resident(last.pre.list)
        /\ Cardinality(Range(last.removed)) = Len(last.removed)
        /\ last.op = "Clear" => Len(last.removed) = Len(last.pre.list)

\* An insertion of a new key whose loop ran once for each of the two entries
\* that were resident.
LoopRanForEveryEntry ==
    /\ Inserted
    /\ last.key \notin Resident(last.pre.list)
    /\ Len(last.pre.list) = 2
    /\ Len(last.removed) = 2

----------------------------------------------------------------------------
\* Properties of package semaphore.

\* Goroutine g is inside Acquire.
InAcquire(g) == gor[g].op = "Acquire" /\ gor[g].pc # "done"

\* Goroutine g has returned from a call of op without a panic.
Returned(g, op) == gor[g].op = op /\ gor[g].pc = "done" /\ ~gor[g].panicked

\* C24: on a Basic semaphore an Acquire(n) that returns returns 0 or n, and n
\* only having found n slots or more; the slots are never negative and, while
\* the semaphore is open, are the created size plus the slots released less
\* the slots acquired.
SlotsAreAccounted ==
    ~strict =>
        /\ slots >= 0
        /\ ~closed => slots = base - taken
        /\ \A g \in Goroutines :
              Returned(g, "Acquire") =>
                  \/ gor[g].ret = 0 /\ closed
                  \/ gor[g].ret = gor[g].n /\ gor[g].avail >= gor[g].n

\* On an open Basic semaphore one goroutine has acquired, after waiting, all
\* the slots there were, and another is parked.
AcquiredAllAfterWaiting ==
    /\ ~strict /\ ~closed
    /\ \E g, h \in Goroutines :
          /\ Returned(g, "Acquire")
          /\ gor[g].waited
          /\ gor[g].ret = 2
          /\ gor[g].avail = 2
          /\ h \in cond

\* What holds of a closed semaphore in every state.
ClosedState ==
    /\ closed => cond = {}
    /\ \A g \in Goroutines :
          /\ Returned(g, "Close") => closed /\ gor[g].err = "nil"

\* C25: Close returns nil and leaves the semaphore closed for good, with its
\* slots as they were; every goroutine inside Acquire when the semaphore is
\* closed comes to return 0; an Acquire that starts after Close returns 0 and
\* never waits.
CloseReleasesAcquirers ==
    /\ []ClosedState
    /\ [][closed => /\ closed' /\ slots' = slots /\ cond' = {}
                     /\ \A g \in Goroutines :
                           (InAcquire(g) /\ ~InAcquire(g)') =>
                               Returned(g, "Acquire")' /\ gor'[g].ret = 0
          ]_semVars
    /\ \A g \in Goroutines :
          (closed /\ InAcquire(g)) ~> (Returned(g, "Acquire") /\ gor[g].ret = 0)

\* After Close, an Acquire that had waited and an Acquire that began after
\* Close have both returned 0.
ClosedWokeWaiter ==
    /\ closed
    /\ \E g, h \in Goroutines :
          /\ Returned(g, "Acquire") /\ gor[g].waited /\ gor[g].ret = 0
          /\ Returned(h, "Acquire") /\ ~gor[h].waited /\ gor[h].ret = 0

\* C26: a goroutine is parked only while the semaphore is open with fewer
\* slots than it asked for; its Acquire does not return while that is so; and
\* an Acquire(n) on an open semaphore with n slots or more comes to return n,
\* unless the slots drop below n or the semaphore is closed first.
NoWakeupIsLost ==
    /\ [](\A g \in Goroutines : g \in cond => ~closed /\ slots < gor[g].n)
    /\ [][\A g \in Goroutines :
            (InAcquire(g) /\ ~closed /\ slots < gor[g].n) => InAcquire(g)']_semVars
    /\ \A g \in Goroutines :
          (InAcquire(g) /\ ~closed /\ slots >= gor[g].n)
              ~> \/ Returned(g, "Acquire") /\ gor[g].ret = gor[g].n
                 \/ slots < gor[g].n
                 \/ closed

\* An Acquire that had waited has returned its slots on an open semaphore
\* after a Release by another goroutine.
WokenByRelease ==
    /\ ~closed
    /\ \E g, h \in Goroutines :
          /\ Returned(g, "Acquire") /\ gor[g].waited /\ gor[g].ret = gor[g].n
          /\ Returned(h, "Release")

\* C27: on a Strict semaphore an Acquire(n) with n over the created size has
\* panicked without taking slots, and the slots are never more than the
\* created size, a Release that would raise them over it having panicked.
StrictKeepsSize ==
    strict =>
        /\ \A g \in Goroutines :
              /\ (gor[g].op = "Acquire" /\ gor[g].n > base) =>
                    gor[g].panicked /\ gor[g].pc = "done" /\ gor[g].ret = 0
        /\ slots <= base

----------------------------------------------------------------------------
\* Properties of package refcount.

\* Caller g has returned from a call of op.
Finished(g, op) == rgo[g].op = op /\ rgo[g].pc = "done"

\* C28: the opener is invoked on the Increment calls that find no open
\* instance and on no other, the closer on the Close calls that find one open
\* instance and on no other; while neither has failed, their invocations
\* alternate, the opener first, and the resource is open exactly when
\* Instances() > 0.
OpensFirstClosesLast ==
    /\ \A g \in Callers :
          /\ Finished(g, "Increment") =>
                (rgo[g].invoked = "opener" <=> rgo[g].found = 0)
          /\ (Finished(g, "Close") /\ rgo[g].found # -1) =>
                (rgo[g].invoked = "closer" <=> rgo[g].found = 1)
          /\ rgo[g].invoked = "closer" => rgo[g].op = "Close"
          /\ rgo[g].invoked = "opener" => rgo[g].op = "Increment"
    /\ ~resource.failed =>
          /\ resource.alternates
          /\ resource.open <=> Instances > 0

\* The resource is open again, after a Close that invoked the closer, through
\* an Increment that found no open instance and invoked the opener.
Reopened ==
    /\ ~resource.failed
    /\ closedOk # {}
    /\ Instances = 1
    /\ \E g, h \in Callers :
          /\ Finished(g, "Increment") /\ rgo[g].invoked = "opener"
          /\ Finished(h, "Close") /\ rgo[h].invoked = "closer"

\* C29: Instances() is the number of closers that Increment has returned and
\* that no Close has closed yet, and is never negative.
InstancesAreCounted ==
    /\ Instances = Cardinality(handed \ closedOk)
    /\ Instances >= 0

\* A Close has failed in the closer and left the one instance open, with
\* another closer closed before.
CloserFailedOnLast ==
    /\ Instances = 1
    /\ closedOk # {}
    /\ \E g \in Callers :
          Finished(g, "Close") /\ rgo[g].err = "error"

\* Caller g is inside Close.
InClose(g) == rgo[g].op = "Close" /\ rgo[g].pc # "done"

\* C30: a Close on a closer that a Close has closed before changes neither
\* Instances() nor the resource, invokes no closer and returns nil.
CloseDecrementsOnce ==
    [][\A g \in Callers :
          (InClose(g) /\ rgo[g].d \in closedOk /\ rgo'[g] # rgo[g]) =>
              /\ instances' = instances
              /\ resource' = resource
              /\ rgo'[g].invoked = "none"
              /\ rgo'[g].pc = "done" => rgo'[g].err = "nil"]_rcVars

\* A Close has returned nil from a closer that was closed already, with an
\* instance still open.
ClosedTwice ==
    /\ Instances > 0
    /\ \E g \in Callers :
          /\ Finished(g, "Close")
          /\ rgo[g].found = -1
          /\ rgo[g].err = "nil"
          /\ rgo[g].d \in closedOk

\* Caller g is inside a call.
InCall(g) == rgo[g].pc # "done"

\* The locks are held by callers that are inside the calls that take them,
\* d.lock before rc.lock.
LocksAreHeldInCalls ==
    /\ rcLock # Nil =>
          rgo[rcLock].pc \in {"rclocked", "opening", "closing"}
    /\ \A d \in Closers :
          decs[d].lock # Nil =>
              /\ InClose(decs[d].lock)
              /\ rgo[decs[d].lock].d = d
              /\ rgo[decs[d].lock].pc # "dlock"
    /\ \A g \in Callers :
          (InClose(g) /\ rgo[g].pc \in {"rclock", "rclocked", "closing"}) =>
              decs[rgo[g].d].lock = g

\* C38: a lock is held only by a caller inside the call that took it, a Close
\* holds the lock of its closer when it asks for rc.lock, a caller that holds
\* rc.lock waits for no lock, and every call that starts returns.
CallsReturn ==
    /\ []LocksAreHeldInCalls
    /\ \A g \in Callers : InCall(g) ~> ~InCall(g)

\* Two callers are inside Close on the same closer, one waiting for d.lock
\* and the other, which holds it, waiting for rc.lock, which a third holds.
WaitingOnBothLocks ==
    \E g, h, k \in Callers :
        /\ InClose(g) /\ rgo[g].pc = "dlock"
        /\ InClose(h) /\ rgo[h].pc = "rclock" /\ rgo[h].d = rgo[g].d
        /\ rcLock = k /\ rgo[k].op = "Increment"

\* Caller g returns from the closer, or from the opener, in this step.
CloserReturns(g) == rgo[g].pc = "closing" /\ rgo'[g].pc = "done"

OpenerReturns(g) == rgo[g].pc = "opening" /\ rgo'[g].pc = "done"

\* C31: a Close whose closer returns an error returns the error and leaves
\* Instances() at 1 and its closer armed and not closed; a later Close on that
\* closer that finds one open instance invokes the closer again and, when it
\* succeeds, leaves Instances() at 0 and the resource shut.
CloserErrorAllowsRetry ==
    [][\A g \in Callers :
          /\ (CloserReturns(g) /\ rgo'[g].err = "error") =>
                /\ Instances = 1 /\ Instances' = 1
                /\ decs'[rgo[g].d].rc
                /\ rgo[g].d \notin closedOk'
                /\ resource'.open
          /\ (rgo[g].pc = "rclocked" /\ rgo[g].op = "Close"
                /\ decs[rgo[g].d].failed /\ Instances = 1
                /\ rgo'[g] # rgo[g]) =>
                rgo'[g].pc = "closing" /\ rgo'[g].invoked = "closer"
          /\ (CloserReturns(g) /\ rgo'[g].err = "nil") =>
                /\ Instances' = 0
                /\ ~resource'.open
                /\ rgo[g].d \in closedOk'
      ]_rcVars

\* A Close has succeeded in the closer, on a closer on which an earlier Close
\* had failed, and has left no instance open.
RetriedCloseSucceeded ==
    /\ Instances = 0
    /\ \E g \in Callers :
          /\ Finished(g, "Close")
          /\ rgo[g].err = "nil"
          /\ rgo[g].invoked = "closer"
          /\ decs[rgo[g].d].failed

\* C32: an Increment whose opener returns an error returns the error, makes
\* no closer and leaves Instances() at 0 and the resource shut; every
\* Increment that finds Instances() at 0 invokes the opener, the next one
\* after a failure too.
OpenerErrorAllowsRetry ==
    [][\A g \in Callers :
          /\ (OpenerReturns(g) /\ rgo'[g].err = "error") =>
                /\ Instances = 0 /\ Instances' = 0
                /\ decs' = decs
                /\ handed' = handed
                /\ ~resource'.open
          /\ (rgo[g].pc = "rclocked" /\ rgo[g].op = "Increment"
                /\ Instances = 0 /\ rgo'[g] # rgo[g]) =>
                rgo'[g].pc = "opening" /\ rgo'[g].invoked = "opener"
          /\ (OpenerReturns(g) /\ rgo'[g].err = "nil") =>
                Instances' = 1 /\ resource'.open
      ]_rcVars

\* An Increment has succeeded in the opener after an Increment of another
\* caller had failed in it.
RetriedIncrementSucceeded ==
    /\ Instances = 1
    /\ \E g, h \in Callers :
          /\ Finished(g, "Increment") /\ rgo[g].err = "nil"
          /\ rgo[g].invoked = "opener"
          /\ Finished(h, "Increment") /\ rgo[h].err = "error"
          /\ closedOk = {}

\* The callers that are inside the opener or the closer.
InCallback == {g \in Callers : rgo[g].pc \in {"opening", "closing"}}

\* C33: at most one caller is inside the opener or the closer, and it holds
\* rc.lock.
CallbacksExclude ==
    /\ Cardinality(InCallback) <= 1
    /\ \A g \in InCallback : rcLock = g

\* One caller is inside the closer while another waits for rc.lock to
\* increment and a third for the lock of the closer that is being closed.
CallbackHoldsOthersOff ==
    \E g, h, k \in Callers :
        /\ rgo[g].pc = "closing"
        /\ rgo[h].pc = "rclock" /\ rgo[h].op = "Increment"
        /\ rgo[k].pc = "dlock" /\ rgo[k].d = rgo[g].d

\* C34: after an insertion that returns (a Put, or a Get whose retriever
\* returned no error) the key is resident once, with the value and the cost of
\* the call, as the most recently used entry, and the call has not removed it.
InsertedEntryStays ==
    Inserted =>
        /\ list # <<>>
        /\ list[Len(list)] =
              [key |-> last.key, value |-> last.value, cost |-> last.cost]
        /\ Cardinality({i \in 1..Len(list) : list[i].key = last.key}) = 1
        /\ last.key \in DOMAIN entries
        /\ CellFor(list, entries[last.key]) = list[Len(list)]
        /\ last.key \notin Range(last.removed)
        /\ recency # <<>> /\ recency[Len(recency)] = last.key

\* A Put on the least recently used key whose loop evicted another entry, and
\* a read-through Get whose loop evicted an entry.
OldestUpdatedAndKept ==
    /\ Inserted
    /\ last.removed # <<>>
    /\ \/ /\ last.op = "Put" /\ OnResident
          /\ last.pre.list[1].key = last.key
       \/ last.op = "Get"

\* C35: an insertion with a cost that is not negative panics only if the sum
\* of the costs of the resident entries, less the old cost of the key, plus
\* the new cost exceeds MaxInt64.
OverflowPanicsOnlyOnOverflow ==
    (Insertion /\ last.cost >= 0 /\ last.panicked) =>
        SumCost(last.pre.list) - OldCost + last.cost > MaxInt64

\* The call that has just returned gave the resident key k another entry.
Replaced(k) == last.op = "Put" /\ ~last.panicked /\ last.key = k

\* The entry the call found for k is resident after it.
Stays(k) ==
    /\ ~Replaced(k)
    /\ k \in Resident(list)
    /\ CellFor(list, k) = CellFor(last.pre.list, k)

\* The number of OnEvict invocations the call made for k.
Passed(k) == Cardinality({i \in 1..Len(last.evicted) : last.evicted[i].key = k})

\* The channels through which the value the call found for k has left or
\* stays: resident, passed to OnEvict, returned by the Put that replaced it.
Channels(k) ==
    (IF Stays(k) THEN 1 ELSE 0) + Passed(k)
        + (IF Replaced(k) /\ last.ret = CellFor(last.pre.list, k).value
           THEN 1 ELSE 0)

\* C36 as stated: after every call, each value the call found in the cache is
\* still resident, or was passed once to OnEvict, or was returned as the
\* previous value of the Put, and only one of these.
ValuesLeaveThroughOneChannel ==
    last.op # "idle" => \A k \in Resident(last.pre.list) : Channels(k) = 1

\* C36: with OnEvict set, each value a call finds in the cache is after the
\* call still resident, or was passed once to OnEvict, or was returned as the
\* previous value of the Put, and only one of these; a replaced value is
\* returned and not passed to OnEvict, the value the call inserts is not passed
\* either, and without OnEvict a removed value is passed to nobody.
ValuesLeaveOnce ==
    last.op # "idle" =>
        /\ \A k \in Resident(last.pre.list) :
              /\ OnEvict => Channels(k) = 1
              /\ ~OnEvict => (Channels(k) <= 1 /\ Passed(k) = 0)
              /\ Replaced(k) =>
                    (Passed(k) = 0 /\ last.ret = CellFor(last.pre.list, k).value)
              /\ \A i \in 1..Len(last.evicted) :
                    last.evicted[i].key = k =>
                        last.evicted[i].value = CellFor(last.pre.list, k).value
        /\ \A i \in 1..Len(last.evicted) :
              last.evicted[i].key \in Resident(last.pre.list)
        /\ Inserted => CellFor(list, last.key).value = last.value

\* A Put, with OnEvict set, that replaced the value of one entry, evicted
\* another and left a third.
ReplacedEvictedAndKept ==
    /\ last.op = "Put" /\ OnResident /\ ~last.panicked
    /\ OnEvict
    /\ last.ret # last.value
    /\ Len(last.evicted) = 1
    /\ Len(list) = 2

\* C37: in every state the keys of c.entries are the keys of the cells of
\* c.list, no key is in the list twice, and the handle c.entries holds for a
\* key is that of the list element whose cell carries the key.
IndexMatchesList ==
    /\ DOMAIN entries = Resident(list)
    /\ Cardinality(Resident(list)) = Len(list)
    /\ LenEntries(entries) = Len(list)
    /\ \A k \in DOMAIN entries :
          /\ Has(list, entries[k])
          /\ list[Index(list, entries[k])].key = k

\* Evict has removed the middle one of three entries.
EvictedFromTheMiddle ==
    /\ last.op = "Evict"
    /\ Len(last.pre.list) = 3
    /\ last.pre.list[2].key = last.key
    /\ Len(list) = 2
    /\ DOMAIN entries = Resident(last.pre.list) \ {last.key}

====
